---- MODULE Spec2Model ----
(***************************************************************************)
(* A model of add-language-examples.py: the tool that replaces console and *)
(* esql code blocks of a markdown document by tab-sets whose tabs include  *)
(* per-language snippet files, and that regenerates those snippet files.   *)
(*                                                                         *)
(* Text is a sequence of tokens.  A token is one lexical unit of the text  *)
(* as the program's regular expressions see it:                            *)
(*   "x"  an ordinary character      "s"  a space       "n"  a newline     *)
(*   "#"  a hash                     "<" ">"  angle brackets               *)
(*   "d"  a digit                    "."  a dot                            *)
(*   "F"  a fence of three backticks "R"  the literal -result              *)
(*   "console", "esql", "python", ... the tag that follows a fence         *)
(***************************************************************************)
EXTENDS Integers, Sequences, FiniteSets, TLC

VARIABLES
  doc,        \* the markdown file on disk
  dirExists,  \* whether _snippets/<document>/ exists
  files,      \* the snippet files: <<example number, language>> -> text
  pc,         \* where process_file stands; "idle" between runs
  run,        \* the locals of the run of process_file
  result,     \* what the last run returned: "True", "False", "raised", "none"
  report,     \* what the last run reported
  convlog,    \* the converter invocations of the run, in order
  errlog,     \* the <<example number, language>> whose conversion gave an error
  lastop,     \* the last run that got past its checks, or edit by hand
  creates,    \* create runs so far
  edits,      \* edits by hand and kills of the process so far
  txt         \* the call specification's state: the values one text goes through

vars == <<doc, dirExists, files, pc, run, result, report, convlog, errlog,
          lastop, creates, edits, txt>>

\* ------------------------------------------------------------------ bounds

\* Longest code text the call specification enumerates.
MaxLen == 3

\* Most code blocks of an initial document.
MaxBlocks == 3

\* Most create runs that find blocks to replace, in one behaviour.
MaxCreateRuns == 2

\* Most events from outside, edits by hand and kills of the process, in one
\* behaviour.
MaxEdits == 1

\* ------------------------------------------------------------- text helpers

Ws == {"s", "n"}

Chars == {"x", "s", "n", "#", "<", "d", ">", "F", ".", "R"}

Drop(s, k) == SubSeq(s, k + 1, Len(s))

Take(s, k) == SubSeq(s, 1, k)

\* s[i], or "" past the end of s
At(s, i) == IF i >= 1 /\ i <= Len(s) THEN s[i] ELSE ""

RECURSIVE RunLen(_, _)
\* length of the longest prefix of s made of tokens of set S
RunLen(s, S) == IF s # <<>> /\ Head(s) \in S THEN 1 + RunLen(Tail(s), S) ELSE 0

RECURSIVE LineLen(_)
\* length of the longest prefix of s that holds no newline: a match of [^\n]*
LineLen(s) == IF s # <<>> /\ Head(s) # "n" THEN 1 + LineLen(Tail(s)) ELSE 0

Reverse(t) == [i \in 1..Len(t) |-> t[Len(t) + 1 - i]]

Min(S) == CHOOSE x \in S : \A y \in S : x <= y

\* Python's str.strip(): leading and trailing whitespace removed
StripSp(s) ==
  LET a == RunLen(s, Ws)
      r == Drop(s, a)
      b == RunLen(Reverse(r), Ws)
  IN  Take(r, Len(r) - b)

\* length of a match of \s*<\d+> at the start of s, 0 when there is none
MarkerLen(s) ==
  LET w == RunLen(s, Ws)
      r == Drop(s, w)
      d == RunLen(Drop(r, 1), {"d"})
  IN  IF At(r, 1) = "<" /\ d > 0 /\ At(r, d + 2) = ">" THEN w + d + 2 ELSE 0

\* length of a match of \s*#.*$ (MULTILINE) at the start of s, 0 when none
CommentLen(s) ==
  LET w == RunLen(s, Ws)
      r == Drop(s, w)
  IN  IF At(r, 1) = "#" THEN w + LineLen(r) ELSE 0

RECURSIVE SubMarkers(_)
SubMarkers(s) ==
  IF s = <<>> THEN <<>>
  ELSE IF MarkerLen(s) > 0 THEN SubMarkers(Drop(s, MarkerLen(s)))
  ELSE <<Head(s)>> \o SubMarkers(Tail(s))

RECURSIVE SubComments(_)
SubComments(s) ==
  IF s = <<>> THEN <<>>
  ELSE IF CommentLen(s) > 0 THEN SubComments(Drop(s, CommentLen(s)))
  ELSE <<Head(s)>> \o SubComments(Tail(s))

strip_annotations(code) == SubComments(SubMarkers(code))

esql_to_console(esql_content) ==
  <<"x", "n", "x", "n", "x", "n">> \o esql_content \o <<"n", "x", "n", "x">>

\* length of a match of \d+\.[^\n]+ at the start of s, 0 when none
ItemLen(s) ==
  LET d == RunLen(s, {"d"})
      k == LineLen(Drop(s, d + 1))
  IN  IF d > 0 /\ At(s, d + 1) = "." /\ k > 0 THEN d + 1 + k ELSE 0

RECURSIVE MoreItemsLen(_)
\* length of a match of (?:\n\d+\.[^\n]+)* at the start of s
MoreItemsLen(s) ==
  IF At(s, 1) = "n" /\ ItemLen(Tail(s)) > 0
  THEN 1 + ItemLen(Tail(s)) + MoreItemsLen(Drop(s, 1 + ItemLen(Tail(s))))
  ELSE 0

\* length of a match of \d+\.[^\n]+(?:\n\d+\.[^\n]+)* at the start of s
ListLen(s) == IF ItemLen(s) = 0 THEN 0 ELSE ItemLen(s) + MoreItemsLen(Drop(s, ItemLen(s)))

\* ---------------------------------------------------- blocks within a text

\* the least j >= k with s[j] a newline and s[j+1] a fence; 0 when there is none
CloseAt(s, k) ==
  LET closes == {j \in k..Len(s) - 1 : s[j] = "n" /\ s[j + 1] = "F"}
  IN  IF closes = {} THEN 0 ELSE Min(closes)

NoMatch == [at |-> 0, len |-> 0, code |-> <<>>, ann |-> <<>>]

\* a match at the start of s of  ```tag\n(.*?)\n```(?:\n\n(list))?  for a tag of tags
BlockMatch(s, tags) ==
  LET c == CloseAt(s, 4)
      after == Drop(s, c + 1)
      l == IF At(after, 1) = "n" /\ At(after, 2) = "n" THEN ListLen(Drop(after, 2)) ELSE 0
  IN  IF At(s, 1) = "F" /\ At(s, 2) \in tags /\ At(s, 3) = "n" /\ c > 0
      THEN [at |-> 1,
            len |-> IF l > 0 THEN c + 3 + l ELSE c + 1,
            code |-> SubSeq(s, 4, c - 1),
            ann |-> Take(Drop(after, 2), l)]
      ELSE NoMatch

\* the positions of s where the block pattern of the tag matches
MatchStarts(s, tag) ==
  {i \in 1..Len(s) : s[i] = "F" /\ BlockMatch(Drop(s, i - 1), {tag}).len > 0}

RECURSIVE MatchesFrom(_, _, _, _)
\* the matches at or after position from, left to right, none overlapping another
MatchesFrom(s, tag, starts, from) ==
  LET next == {i \in starts : i >= from}
      i == Min(next)
      m == BlockMatch(Drop(s, i - 1), {tag})
  IN  IF next = {} THEN <<>>
      ELSE <<[m EXCEPT !.at = i]>> \o MatchesFrom(s, tag, starts, i + m.len)

\* re.findall and re.sub: the matches from left to right, none overlapping another
FindBlocks(s, tag) == MatchesFrom(s, tag, MatchStarts(s, tag), 1)

extract_code_blocks(markdown_text, block_type) ==
  LET ms == FindBlocks(markdown_text, block_type)
      Keep(m) == block_type # "console" \/ At(m.code, 1) # "R"
      kept == SelectSeq(ms, Keep)
  IN  [i \in 1..Len(kept) |-> <<kept[i].code, StripSp(kept[i].ann)>>]

\* --------------------------------------------------------------- languages

DEFAULT_LANGUAGES == <<"curl", "python", "js", "php", "ruby">>

\* str.lower() on the identifiers and labels the model uses
lower(l) ==
  CASE l \in {"Python", "PYTHON"} -> "python"
    [] l \in {"JavaScript", "Javascript"} -> "javascript"
    [] l \in {"PHP", "Php"} -> "php"
    [] l = "Ruby" -> "ruby"
    [] l = "Curl" -> "curl"
    [] l = "Js" -> "js"
    [] l = "Cobol" -> "cobol"
    [] l = "Console" -> "console"
    [] l = "ES|QL" -> "es|ql"
    [] OTHER -> l

\* str.capitalize()
capitalize(l) ==
  CASE lower(l) = "python" -> "Python"
    [] lower(l) = "javascript" -> "Javascript"
    [] lower(l) = "php" -> "Php"
    [] lower(l) = "ruby" -> "Ruby"
    [] lower(l) = "curl" -> "Curl"
    [] lower(l) = "js" -> "Js"
    [] lower(l) = "cobol" -> "Cobol"
    [] OTHER -> l

None == "None"

\* LANGUAGE_MAP.get(key): None for a key the map does not hold
LANGUAGE_MAP(key) ==
  CASE key = "python" -> "Python"
    [] key = "javascript" -> "JavaScript"
    [] key = "js" -> "JavaScript"
    [] key = "php" -> "PHP"
    [] key = "ruby" -> "Ruby"
    [] key = "curl" -> "curl"
    [] OTHER -> None

\* LANGUAGE_MAP.get(lang.lower(), lang.capitalize())
lang_label(lang) ==
  IF LANGUAGE_MAP(lower(lang)) # None THEN LANGUAGE_MAP(lower(lang)) ELSE capitalize(lang)

\* ---------------------------------------------------------------- converter

\* The external es-request-converter: its output is a function of the format,
\* the --complete flag and the request text.  The client set-up that --complete
\* adds, and every curl command, name the local endpoint.
Converter(converter_lang, complete, console_content) ==
  <<"out", converter_lang, IF complete THEN "complete" ELSE "brief">>
  \o (IF complete \/ converter_lang = "curl" THEN <<"localhost">> ELSE <<>>)
  \o <<"n">> \o console_content \o <<"n">>

RECURSIVE RstripLines(_)
\* '\n'.join(line.rstrip() for line in stdout.splitlines())
RstripLines(s) ==
  IF s = <<>> THEN <<>>
  ELSE LET k == RunLen(s, {"s"})
       IN  IF k > 0 /\ (k = Len(s) \/ s[k + 1] = "n") THEN RstripLines(Drop(s, k))
           ELSE IF s = <<"n">> THEN <<>>
           ELSE <<Head(s)>> \o RstripLines(Tail(s))

\* <<lang, code, error>>; failing is the set of <<format, request>> the tool rejects
convert_single_language(lang, console_content, complete, converter_lang, failing) ==
  IF <<converter_lang, console_content>> \in failing
  THEN <<lang, console_content, "Conversion failed">>
  ELSE <<lang, RstripLines(Converter(converter_lang, complete, console_content)), None>>

Range(q) == {q[i] : i \in DOMAIN q}

\* the languages of a request that LANGUAGE_MAP does not know
Unsupported(languages) == {l \in Range(languages) : LANGUAGE_MAP(lower(l)) = None}

\* the conversion tasks of a request, in request order
Tasks(languages) ==
  LET Known(l) == LANGUAGE_MAP(lower(l)) # None IN SelectSeq(languages, Known)

\* ThreadPoolExecutor(max_workers=len(tasks) * 1.5) raises ValueError for 0 workers
PoolRaises(languages) == Len(Tasks(languages)) = 0

\* convert_console: [raised, results, errors]; results and errors are the dicts
convert_console(console_content, languages, complete, failing) ==
  LET One(l) == convert_single_language(l, console_content, complete,
                                        LANGUAGE_MAP(lower(l)), failing)
  IN  IF PoolRaises(languages)
      THEN [raised |-> TRUE,
            results |-> [l \in Unsupported(languages) |-> console_content],
            errors |-> [l \in Unsupported(languages) |-> "Unsupported language"]]
      ELSE [raised |-> FALSE,
            results |-> [l \in Range(languages) |->
                           IF l \in Unsupported(languages) THEN console_content
                           ELSE One(l)[2]],
            errors |-> [l \in {k \in Range(languages) :
                                 k \in Unsupported(languages) \/ One(k)[3] # None} |->
                          IF l \in Unsupported(languages) THEN "Unsupported language"
                          ELSE One(l)[3]]]

\* ------------------------------------------------------------- snippet files

RECURSIVE Replace(_, _, _)
Replace(s, old, new) ==
  IF s = <<>> THEN <<>>
  ELSE <<IF Head(s) = old THEN new ELSE Head(s)>> \o Replace(Tail(s), old, new)

\* format_curl, format_python, format_ruby, format_javascript, format_php: the
\* local endpoint literal of the language becomes an environment lookup
format_language(code) == Replace(code, "localhost", "env")

\* the fence tag write_snippet_file chooses, and the code it writes
code_lang(lang) ==
  CASE lang = "esql" -> "esql"
    [] lang = "console" -> "console"
    [] lang = "curl" -> "bash"
    [] lower(lang) = "python" -> "python"
    [] lower(lang) = "ruby" -> "ruby"
    [] lower(lang) \in {"js", "javascript"} -> "js"
    [] lower(lang) = "php" -> "php"
    [] OTHER -> lang

formatted_code(lang, code) ==
  IF lang = "curl" \/ lower(lang) \in {"python", "ruby", "js", "javascript", "php"}
  THEN format_language(code) ELSE code

\* the text write_snippet_file writes
snippet_content(lang, code, annotations) ==
  <<"F", code_lang(lang), "n">> \o formatted_code(lang, code) \o <<"n", "F", "n">>
  \o (IF annotations # <<>> THEN <<"n">> \o annotations \o <<"n">> ELSE <<>>)

RECURSIVE SearchBlock(_)
\* re.search of  ```(?:console|esql)\n(.*?)\n```
SearchBlock(s) ==
  IF s = <<>> THEN NoMatch
  ELSE IF BlockMatch(s, {"console", "esql"}).len > 0 THEN BlockMatch(s, {"console", "esql"})
  ELSE SearchBlock(Tail(s))

RECURSIVE SearchAnn(_)
\* re.search of  ```\n\n(list): the list, <<>> when there is no match
SearchAnn(s) ==
  IF s = <<>> THEN <<>>
  ELSE IF At(s, 1) = "F" /\ At(s, 2) = "n" /\ At(s, 3) = "n" /\ ListLen(Drop(s, 3)) > 0
  THEN Take(Drop(s, 3), ListLen(Drop(s, 3)))
  ELSE SearchAnn(Tail(s))

\* a parse whose code group takes the newline before the closing fence
parse_snippet_file_with_newline(content) ==
  IF SearchBlock(content).len = 0 THEN <<<<>>, <<>>>>
  ELSE <<SearchBlock(content).code \o <<"n">>, StripSp(SearchAnn(content))>>

\* <<code, annotations>> of a snippet file's text
parse_snippet_file(content) ==
  IF SearchBlock(content).len = 0 THEN <<<<>>, <<>>>>
  ELSE <<SearchBlock(content).code, StripSp(SearchAnn(content))>>

\* ------------------------------------------------------------ inline tab-sets

\* a first tab that holds the code as it is given, whitespace around it kept
prepare_code_for_conversion_unstripped(code, block_type, annotations) ==
  <<strip_annotations(code),
    <<"x", "n", "x", "n", "F", block_type, "n">> \o code \o <<"n", "F", "n">>
    \o (IF annotations # <<>> THEN annotations \o <<"n">> ELSE <<>>) \o <<"x", "n">>>>

\* <<code_to_convert, first_tab>>
prepare_code_for_conversion(code, block_type, annotations) ==
  LET c == StripSp(code)
      tab(tag) == <<"x", "n", "x", "n", "F", tag, "n">> \o c \o <<"n", "F", "n">>
                  \o (IF annotations # <<>> THEN annotations \o <<"n">> ELSE <<>>)
                  \o <<"x", "n">>
  IN  IF block_type = "esql"
      THEN <<esql_to_console(strip_annotations(c)), tab("esql")>>
      ELSE <<strip_annotations(c), tab("console")>>

build_language_tab(lang, converted_code) ==
  <<"n", "x", "n", "x", "n", "F", IF lang = "curl" THEN "bash" ELSE lang, "n">>
  \o formatted_code(lang, converted_code) \o <<"n", "F", "n", "x", "n">>

RECURSIVE LanguageTabs(_, _)
LanguageTabs(languages, converted_codes) ==
  IF languages = <<>> THEN <<>>
  ELSE build_language_tab(Head(languages), converted_codes[Head(languages)])
       \o LanguageTabs(Tail(languages), converted_codes)

\* wrap_in_tabs: [raised, tabs, errors]
wrap_in_tabs(code, annotations, languages, is_first_block, block_type, failing) ==
  LET prep == prepare_code_for_conversion(code, block_type, annotations)
      conv == convert_console(prep[1], languages, is_first_block, failing)
      console_tab == IF block_type = "esql"
                     THEN <<"n", "x", "n", "x", "n", "F", "console", "n">> \o prep[1]
                          \o <<"n", "F", "n", "x", "n">>
                     ELSE <<>>
  IN  [raised |-> conv.raised,
       tabs |-> IF conv.raised THEN <<>>
                ELSE <<"x", "n", "x", "n", "n">> \o prep[2] \o console_tab
                     \o LanguageTabs(languages, conv.results) \o <<"n", "x">>,
       errors |-> conv.errors]

\* ----------------------------------------------------------------- documents
\* A document is a sequence of elements: a token of text ("ch"), or one of the
\* directive lines the program reads and writes:
\*   open    a run of n colons and {a}: a = "tab-set", "tab-item" (b its label),
\*           "include" (of snippet file example<num>-<b>.md of this document),
\*           or another directive name
\*   sync    the line ":sync: a"
\*   colons  a run of n colons

Ch(t) == [k |-> "ch", a |-> t, b |-> "", n |-> 0, num |-> 0]

Open(name, arg, colons, example_num) ==
  [k |-> "open", a |-> name, b |-> arg, n |-> colons, num |-> example_num]

SyncLine(key) == [k |-> "sync", a |-> key, b |-> "", n |-> 0, num |-> 0]

Colons(c) == [k |-> "colons", a |-> "", b |-> "", n |-> c, num |-> 0]

Chs(s) == [i \in 1..Len(s) |-> Ch(s[i])]

\* the text of a document as the block patterns see it: a directive line holds
\* no fence, newline, digit or marker
Text(md) == [i \in 1..Len(md) |-> IF md[i].k = "ch" THEN md[i].a ELSE "x"]

IsCh(e, t) == e.k = "ch" /\ e.a = t

build_include_directive(example_num, lang) ==
  <<Open("include", lang, 3, example_num), Ch("n"), Colons(3)>>

\* one tab of a tab-set: the tab-item line, its sync line and the include
TabItem(label, sync_key, example_num, lang) ==
  <<Open("tab-item", label, 3, 0), Ch("n"), SyncLine(sync_key), Ch("n"), Ch("n")>>
  \o build_include_directive(example_num, lang) \o <<Ch("n"), Ch("n")>>

RECURSIVE LanguageItems(_, _)
LanguageItems(languages, example_num) ==
  IF languages = <<>> THEN <<>>
  ELSE TabItem(lang_label(Head(languages)), lower(Head(languages)), example_num,
               Head(languages))
       \o LanguageItems(Tail(languages), example_num)

\* a tab-set whose Console tab comes first, before the ES|QL tab
TabSetConsoleFirst(block_type, example_num, languages) ==
  <<Open("tab-set", "", 4, 0), Ch("n"), Ch("x"), Ch("n"), Ch("n")>>
  \o TabItem("Console", "console", example_num, "console")
  \o (IF block_type = "esql" THEN TabItem("ES|QL", "esql", example_num, "esql") ELSE <<>>)
  \o LanguageItems(languages, example_num)
  \o <<Colons(4)>>

\* the tab-set create_snippets_and_tabs returns
TabSet(block_type, example_num, languages) ==
  <<Open("tab-set", "", 4, 0), Ch("n"), Ch("x"), Ch("n"), Ch("n")>>
  \o (IF block_type = "esql" THEN TabItem("ES|QL", "esql", example_num, "esql") ELSE <<>>)
  \o TabItem("Console", "console", example_num, "console")
  \o LanguageItems(languages, example_num)
  \o <<Colons(4)>>

Directives == {"stepper", "step", "dropdown", "note", "warning", "tip", "important",
               "plain", "tabs", "tab-set", "tab-item"}

RECURSIVE Cat(_, _, _)
\* pieces[lo] \o ... \o pieces[hi]
Cat(pieces, lo, hi) ==
  IF lo > hi THEN <<>>
  ELSE IF lo = hi THEN pieces[lo]
  ELSE Cat(pieces, lo, (lo + hi) \div 2) \o Cat(pieces, (lo + hi) \div 2 + 1, hi)

RECURSIVE SpacesBefore(_, _)
\* the number of spaces right before element i
SpacesBefore(text, i) ==
  IF i > 1 /\ IsCh(text[i - 1], "s") THEN 1 + SpacesBefore(text, i - 1) ELSE 0

RECURSIVE SpacesAfter(_, _)
\* the number of spaces right after element i
SpacesAfter(text, i) ==
  IF i < Len(text) /\ IsCh(text[i + 1], "s") THEN 1 + SpacesAfter(text, i + 1) ELSE 0

\* whether element i starts its line
StartsLine(text, i) == i = 1 \/ IsCh(text[i - 1], "n")

\* whether the line of element i, stripped, is that element: a run of >= 3 colons
ClosingLine(text, i) ==
  /\ text[i].k = "colons"
  /\ text[i].n >= 3
  /\ StartsLine(text, i - SpacesBefore(text, i))
  /\ \/ i + SpacesAfter(text, i) = Len(text)
     \/ IsCh(text[i + SpacesAfter(text, i) + 1], "n")

\* what increment_directive_delimiters makes of element i: an opening directive
\* at the start of a line and a closing line get the colons, and a closing line
\* loses its trailing spaces
IncrementAt(text, i, levels) ==
  LET e == text[i]
      before == SpacesBefore(text, i)
  IN  IF e.k = "open" /\ e.a \in Directives /\ e.n >= 1 /\ StartsLine(text, i)
      THEN <<[e EXCEPT !.n = @ + levels]>>
      ELSE IF e.k = "colons" /\ ClosingLine(text, i) THEN <<Colons(e.n + levels)>>
      ELSE IF IsCh(e, "s") /\ i - before - 1 >= 1 /\ ClosingLine(text, i - before - 1)
      THEN <<>>
      ELSE <<e>>

increment_directive_delimiters(text, levels) ==
  Cat([i \in 1..Len(text) |-> IncrementAt(text, i, levels)], 1, Len(text))

\* whether a tab-item line of the label (case ignored) at i is followed, over
\* whitespace that holds a newline, by a sync line whose key starts with key
TabAt(md, i, label, key) ==
  LET w == RunLen(Text(Drop(md, i)), Ws)
  IN  /\ md[i].k = "open" /\ md[i].a = "tab-item" /\ md[i].n >= 3
      /\ lower(md[i].b) = lower(label)
      /\ \E j \in i + 1..i + w : IsCh(md[j], "n")
      /\ i + w + 1 <= Len(md)
      /\ md[i + w + 1].k = "sync"
      /\ lower(md[i + w + 1].a) = lower(key)

HasTab(md, label, key) == \E i \in 1..Len(md) : TabAt(md, i, label, key)

RECURSIVE FirstTabbed(_, _)
\* the first language of the list whose tab has_language_tabs finds, None when none
FirstTabbed(md, languages) ==
  IF languages = <<>> THEN None
  ELSE IF HasTab(md, capitalize(Head(languages)), lower(Head(languages)))
  THEN Head(languages)
  ELSE FirstTabbed(md, Tail(languages))

\* has_language_tabs: the language found, None when the document has no such tab
has_language_tabs(markdown_text, languages) ==
  IF HasTab(markdown_text, "ES|QL", "esql") THEN "esql"
  ELSE FirstTabbed(markdown_text, languages)

count_tabsets_in_markdown(markdown_text) ==
  Cardinality({i \in 1..Len(markdown_text) :
                 /\ markdown_text[i].k = "open" /\ markdown_text[i].a = "tab-set"
                 /\ markdown_text[i].n >= 4})

RECURSIVE Substitute(_, _, _, _, _)
\* the text from position from on, each of the matches ms replaced: a console
\* block that starts with -result by itself, another by the next replacement;
\* raised: the replacer called next() on an exhausted iterator
Substitute(md, tag, ms, reps, from) ==
  IF ms = <<>> THEN [out |-> Drop(md, from - 1), raised |-> FALSE]
  ELSE LET m == Head(ms)
           kept == tag = "console" /\ At(m.code, 1) = "R"
           r == Substitute(md, tag, Tail(ms), IF kept THEN reps ELSE Tail(reps),
                           m.at + m.len)
       IN  IF ~kept /\ reps = <<>> THEN [out |-> <<>>, raised |-> TRUE]
           ELSE [out |-> SubSeq(md, from, m.at - 1)
                         \o (IF kept THEN SubSeq(md, m.at, m.at + m.len - 1)
                             ELSE Head(reps))
                         \o r.out,
                 raised |-> r.raised]

\* re.sub of one block pattern with a replacer that takes the next replacement
ReplacePass(md, tag, reps) == Substitute(md, tag, FindBlocks(Text(md), tag), reps, 1)

replace_blocks(markdown_text, console_replacements, esql_replacements) ==
  LET first == ReplacePass(markdown_text, "console", console_replacements)
      second == ReplacePass(first.out, "esql", esql_replacements)
  IN  [out |-> second.out, raised |-> first.raised \/ second.raised]

\* re.sub of (_snippets/<document>/example)<old_num>(-\w+\.md) by \g<1><new_num>\g<2>
Renumber(md, old_num, new_num) ==
  [i \in 1..Len(md) |->
     IF md[i].k = "open" /\ md[i].a = "include" /\ md[i].num = old_num
     THEN [md[i] EXCEPT !.num = new_num] ELSE md[i]]

RECURSIVE RenumberAll(_, _, _)
\* the loop over zip(actual_numbers, expected_numbers)
RenumberAll(md, actual_numbers, expected_numbers) ==
  IF actual_numbers = <<>> \/ expected_numbers = <<>> THEN md
  ELSE RenumberAll(IF Head(actual_numbers) # Head(expected_numbers)
                   THEN Renumber(md, Head(actual_numbers), Head(expected_numbers))
                   ELSE md,
                   Tail(actual_numbers), Tail(expected_numbers))

\* ------------------------------------------------------------- snippet files

Put(f, key, v) == [x \in DOMAIN f \cup {key} |-> IF x = key THEN v ELSE f[x]]

NoFiles == [x \in {} |-> <<>>]

\* write_snippet_file on the snippet directory
write_snippet_file(fs, example_num, lang, code, annotations) ==
  Put(fs, <<example_num, lang>>, snippet_content(lang, code, annotations))

\* a check that is content with a snippets directory, whatever it holds
has_snippets_dir(exists, fs) == exists

\* whether the snippets directory is there and holds a console snippet
has_console_snippets(exists, fs) ==
  exists /\ \E key \in DOMAIN fs : key[2] = "console"

RECURSIVE SortedSeq(_)
SortedSeq(S) ==
  IF S = {} THEN <<>>
  ELSE LET m == CHOOSE x \in S : \A y \in S : x <= y IN <<m>> \o SortedSeq(S \ {m})

\* the example numbers of the console snippet files, ascending
get_console_snippets(fs) == SortedSeq({key[1] : key \in {q \in DOMAIN fs : q[2] = "console"}})

RECURSIVE WriteLanguages(_, _, _, _)
\* the loop that writes the snippet of each language, in request order
WriteLanguages(fs, example_num, languages, converted_codes) ==
  IF languages = <<>> THEN fs
  ELSE WriteLanguages(write_snippet_file(fs, example_num, Head(languages),
                                         converted_codes[Head(languages)], <<>>),
                      example_num, Tail(languages), converted_codes)

\* create_snippets_and_tabs: [raised, files, tabs, errors]; when convert_console
\* raises, the snippets written before it stay
create_snippets_and_tabs(fs, example_num, block_code, annotations, languages, is_first_block, block_type, failing) ==
  LET code == StripSp(block_code)
      code_to_convert == IF block_type = "esql"
                         THEN esql_to_console(strip_annotations(code))
                         ELSE strip_annotations(code)
      written == IF block_type = "esql"
                 THEN write_snippet_file(
                        write_snippet_file(fs, example_num, "esql", code, annotations),
                        example_num, "console", code_to_convert, <<>>)
                 ELSE write_snippet_file(fs, example_num, "console", code, annotations)
      conv == convert_console(code_to_convert, languages, is_first_block, failing)
  IN  IF conv.raised
      THEN [raised |-> TRUE, files |-> written, tabs |-> <<>>, errors |-> conv.errors]
      ELSE [raised |-> FALSE,
            files |-> WriteLanguages(written, example_num, languages, conv.results),
            tabs |-> TabSet(block_type, example_num, languages),
            errors |-> conv.errors]

RECURSIVE WriteAll(_, _, _)
\* write_snippet_file for each of the writes, in order
WriteAll(fs, example_num, writes) ==
  IF writes = <<>> THEN fs
  ELSE WriteAll(write_snippet_file(fs, example_num, Head(writes)[1], Head(writes)[2],
                                   Head(writes)[3]),
                example_num, Tail(writes))

\* the calls of write_snippet_file create_snippets_and_tabs makes for a block,
\* in order: <<language, code, annotations>>; none after a convert_console
\* that raises
SnippetWrites(block_code, annotations, languages, is_first_block, block_type, failing) ==
  LET code == StripSp(block_code)
      code_to_convert == IF block_type = "esql"
                         THEN esql_to_console(strip_annotations(code))
                         ELSE strip_annotations(code)
      conv == convert_console(code_to_convert, languages, is_first_block, failing)
  IN  (IF block_type = "esql"
       THEN <<<<"esql", code, annotations>>, <<"console", code_to_convert, <<>>>>>>
       ELSE <<<<"console", code, annotations>>>>)
      \o (IF conv.raised THEN <<>>
          ELSE [j \in 1..Len(languages) |->
                  <<languages[j], conv.results[languages[j]], <<>>>>])

\* ------------------------------------------------------------- initial states

\* the text of a fenced block and the numbered list after it
BlockText(tag, code, ann) ==
  <<"F", tag, "n">> \o code \o <<"n", "F">>
  \o (IF ann # <<>> THEN <<"n", "n">> \o ann ELSE <<>>)

Block(tag, code, ann) == Chs(BlockText(tag, code, ann))

\* the blocks the initial documents are made of: a request with an annotation
\* marker and its list, an empty block, a block that starts with -result, and an
\* esql query
Segments ==
  { [tag |-> "console", code |-> <<"x", "s", "<", "d", ">">>, ann |-> <<"d", ".", "x">>],
    [tag |-> "console", code |-> <<>>, ann |-> <<>>],
    [tag |-> "console", code |-> <<"R">>, ann |-> <<>>],
    [tag |-> "esql", code |-> <<"x", "x">>, ann |-> <<>>] }

RECURSIVE Paragraphs(_)
Paragraphs(q) ==
  IF q = <<>> THEN <<>>
  ELSE Chs(<<"n", "n">>) \o Block(Head(q).tag, Head(q).code, Head(q).ann)
       \o Paragraphs(Tail(q))

\* a document: a line of text, then blocks a blank line apart
DocOf(q) == Chs(<<"x">>) \o Paragraphs(q) \o Chs(<<"n">>)

InitDocs == {DocOf(q) : q \in UNION {[1..n -> Segments] : n \in 1..MaxBlocks}}

\* the language lists a run is asked for
LangLists == {<<"js">>, <<"python", "cobol">>, <<"cobol">>}

\* what the external converter rejects: the request x, asked for in JavaScript
Rejects == {<<"JavaScript", <<"x">>>>}

NoRun ==
  [mode |-> "none", langs |-> <<>>, md |-> <<>>, console_blocks |-> <<>>,
   esql_blocks |-> <<>>, kind |-> "console", i |-> 0, console_tabs |-> <<>>,
   esql_tabs |-> <<>>, all_errors |-> {}, console_data |-> <<>>,
   actual_numbers |-> <<>>, tabset_count |-> 0, doc0 |-> <<>>, files0 |-> NoFiles,
   again |-> FALSE, wrote |-> FALSE, repairs |-> FALSE, parsed0 |-> <<>>]

Running == [kind |-> "running", langs |-> <<>>]

NoTxt ==
  [stage |-> "none", text |-> <<>>, code |-> <<>>, annotations |-> <<>>,
   stripped |-> <<>>, langs |-> <<>>, complete |-> FALSE, raised |-> FALSE,
   tabs |-> <<>>, found |-> <<>>, content |-> <<>>, parsed |-> <<>>,
   results |-> <<>>, errors |-> <<>>, invoked |-> {}, tasks |-> <<>>,
   futures |-> <<>>, outcome |-> <<>>, collected |-> {}, dirs |-> <<>>,
   nested |-> FALSE, levels |-> 0, md |-> <<>>, out |-> <<>>]

Init ==
  /\ doc \in InitDocs
  /\ dirExists = FALSE
  /\ files = NoFiles
  /\ pc = "idle"
  /\ run = NoRun
  /\ result = "none"
  /\ report = "none"
  /\ convlog = <<>>
  /\ errlog = {}
  /\ lastop = [kind |-> "none", langs |-> <<>>]
  /\ creates = 0
  /\ edits = 0
  /\ txt = NoTxt

\* ------------------------------------------------------------------- the runs

\* process_file returns (or an exception leaves it)
Return(res, rep) ==
  /\ pc' = "idle"
  /\ result' = res
  /\ report' = rep
  /\ lastop' = [kind |-> run.mode, langs |-> run.langs]

\* whether the run repeats the run before it, with nothing done in between
RunsAgain(mode, languages) == lastop = [kind |-> mode, langs |-> languages]

\* process_file returns before it has done anything
ReturnAtOnce(mode, languages, res, rep) ==
  /\ pc' = "idle"
  /\ result' = res
  /\ report' = rep
  /\ run' = [NoRun EXCEPT !.mode = mode, !.langs = languages, !.doc0 = doc,
                            !.files0 = files]
  /\ convlog' = <<>>
  /\ errlog' = {}
  /\ UNCHANGED <<doc, dirExists, files, creates, lastop>>

\* the block create mode is at, its example number and its boilerplate flag
CurBlock ==
  IF run.kind = "console" THEN run.console_blocks[run.i] ELSE run.esql_blocks[run.i]

\* a numbering that forgets the console blocks before the esql blocks
ExampleNumRestarts == run.i

ExampleNum == IF run.kind = "console" THEN run.i ELSE Len(run.console_blocks) + run.i

\* a flag that is also set for the first esql block after console blocks
IsFirstOfItsKind == run.i = 1

IsFirstBlock == run.i = 1 /\ (run.kind = "console" \/ run.console_blocks = <<>>)

\* the converter invocations of one convert_console call, in task order
Invocations(example_num, languages, complete) ==
  LET t == Tasks(languages)
  IN  [j \in 1..Len(t) |-> [num |-> example_num, lang |-> t[j], complete |-> complete]]

\* process_file in create mode, up to the first block
CreateStart(languages) ==
  /\ pc = "idle"
  /\ LET markdown_text == increment_directive_delimiters(doc, 1)
         console_blocks == extract_code_blocks(Text(markdown_text), "console")
         esql_blocks == extract_code_blocks(Text(markdown_text), "esql")
     IN  IF has_language_tabs(doc, languages) # None
         THEN ReturnAtOnce("create", languages, "False", "already processed")
         ELSE IF console_blocks = <<>> /\ esql_blocks = <<>>
         THEN ReturnAtOnce("create", languages, "False", "no blocks")
         ELSE /\ creates < MaxCreateRuns
              /\ pc' = "c_block"
              /\ run' = [NoRun EXCEPT !.mode = "create", !.langs = languages,
                                       !.md = markdown_text,
                                       !.console_blocks = console_blocks,
                                       !.esql_blocks = esql_blocks,
                                       !.kind = IF console_blocks # <<>> THEN "console"
                                                ELSE "esql",
                                       !.i = 1, !.doc0 = doc, !.files0 = files]
              /\ dirExists' = TRUE
              /\ creates' = creates + 1
              /\ result' = "none"
              /\ report' = "none"
              /\ convlog' = <<>>
              /\ errlog' = {}
              /\ lastop' = Running
              /\ UNCHANGED <<doc, files>>
  /\ UNCHANGED <<edits, txt>>

\* one iteration of a loop of process_file: create_snippets_and_tabs for the
\* block the run is at
CreateBlock ==
  /\ pc = "c_block"
  /\ LET made == create_snippets_and_tabs(files, ExampleNum, CurBlock[1], CurBlock[2],
                                          run.langs, IsFirstBlock, run.kind, Rejects)
         more == run.i < Len(IF run.kind = "console" THEN run.console_blocks
                             ELSE run.esql_blocks)
         turn == run.kind = "console" /\ ~more /\ run.esql_blocks # <<>>
     IN  /\ files' = made.files
         /\ IF made.raised
            THEN /\ Return("raised", "exception")
                 /\ UNCHANGED <<run, convlog, errlog>>
            ELSE /\ run' = [run EXCEPT
                              !.console_tabs = IF run.kind = "console"
                                               THEN Append(@, made.tabs) ELSE @,
                              !.esql_tabs = IF run.kind = "esql"
                                            THEN Append(@, made.tabs) ELSE @,
                              !.all_errors = IF DOMAIN made.errors # {}
                                             THEN @ \cup {<<run.kind, run.i>>} ELSE @,
                              !.i = IF more THEN @ + 1 ELSE IF turn THEN 1 ELSE @,
                              !.kind = IF turn THEN "esql" ELSE @]
                 /\ pc' = IF more \/ turn THEN "c_block" ELSE "c_done"
                 /\ convlog' = convlog \o Invocations(ExampleNum, run.langs, IsFirstBlock)
                 /\ errlog' = errlog \cup {<<ExampleNum, l>> : l \in DOMAIN made.errors}
                 /\ UNCHANGED <<result, report, lastop>>
  /\ UNCHANGED <<doc, dirExists, creates, edits, txt>>

\* process_file replaces the blocks, writes the document and returns
CreateFinish ==
  /\ pc = "c_done"
  /\ LET updated == replace_blocks(run.md, run.console_tabs, run.esql_tabs)
     IN  IF updated.raised
         THEN /\ Return("raised", "exception")
              /\ UNCHANGED doc
         ELSE /\ doc' = updated.out
              /\ IF run.all_errors # {} THEN Return("False", "completed with errors")
                 ELSE Return("True", "updated")
  /\ UNCHANGED <<dirExists, files, run, convlog, errlog, creates, edits, txt>>

\* (code, annotations) parse_snippet_file reads from each console snippet, in
\* number order
ParsedSnippets(fs) ==
  LET nums == get_console_snippets(fs)
  IN  [j \in 1..Len(nums) |-> parse_snippet_file(fs[<<nums[j], "console">>])]

\* (code, annotations) of the console snippets, in number order, those without
\* code left out
ConsoleData(fs) ==
  LET HasCode(d) == d[1] # <<>>
  IN  SelectSeq(ParsedSnippets(fs), HasCode)

\* process_file in regenerate mode: the check, and regenerate_from_snippets up
\* to the reading of the console snippets
RegenStart(languages) ==
  /\ pc = "idle"
  /\ IF ~has_console_snippets(dirExists, files)
     THEN ReturnAtOnce("regen", languages, "False", "no console snippets")
     ELSE /\ pc' = "r_clean"
          /\ run' = [NoRun EXCEPT !.mode = "regen", !.langs = languages,
                                   !.console_data = ConsoleData(files),
                                   !.actual_numbers = get_console_snippets(files),
                                   !.doc0 = doc,
                                   !.files0 = IF RunsAgain("regen", languages)
                                              THEN files ELSE NoFiles,
                                   !.again = RunsAgain("regen", languages),
                                   !.repairs = lastop.kind = "crash",
                                   !.parsed0 = ParsedSnippets(files)]
          /\ result' = "none"
          /\ report' = "none"
          /\ convlog' = <<>>
          /\ errlog' = {}
          /\ lastop' = Running
          /\ UNCHANGED <<doc, dirExists, files, creates>>
  /\ UNCHANGED <<edits, txt>>

\* regenerate_from_snippets unlinks every example*.md and reads the document
RegenClean ==
  /\ pc = "r_clean"
  /\ files' = NoFiles
  /\ run' = [run EXCEPT !.md = doc, !.tabset_count = count_tabsets_in_markdown(doc),
                         !.i = 1]
  /\ pc' = IF run.console_data # <<>> THEN "r_snippet" ELSE "r_done"
  /\ UNCHANGED <<doc, dirExists, result, report, convlog, errlog, lastop,
                 creates, edits, txt>>

\* one iteration of the loop of regenerate_from_snippets: the console snippet
\* is written under its new number, converted, and its language snippets written
RegenSnippet ==
  /\ pc = "r_snippet"
  /\ LET console_code == run.console_data[run.i][1]
         annotations == run.console_data[run.i][2]
         written == write_snippet_file(files, run.i, "console", console_code, annotations)
         conv == convert_console(strip_annotations(console_code), run.langs, run.i = 1,
                                 Rejects)
     IN  IF conv.raised
         THEN /\ files' = written
              /\ Return("raised", "exception")
              /\ UNCHANGED <<run, convlog, errlog>>
         ELSE /\ files' = WriteLanguages(written, run.i, run.langs, conv.results)
              /\ run' = [run EXCEPT !.all_errors = IF DOMAIN conv.errors # {}
                                                    THEN @ \cup {<<"console", run.i>>}
                                                    ELSE @,
                                     !.i = IF run.i < Len(run.console_data) THEN @ + 1
                                           ELSE @]
              /\ pc' = IF run.i < Len(run.console_data) THEN "r_snippet" ELSE "r_done"
              /\ convlog' = convlog \o Invocations(run.i, run.langs, run.i = 1)
              /\ errlog' = errlog \cup {<<run.i, l>> : l \in DOMAIN conv.errors}
              /\ UNCHANGED <<result, report, lastop>>
  /\ UNCHANGED <<doc, dirExists, creates, edits, txt>>

ExpectedNumbers == [j \in 1..Len(run.actual_numbers) |-> j]

\* whether regenerate_from_snippets writes the document
RegenWrites ==
  run.actual_numbers # ExpectedNumbers \/ Len(run.console_data) # run.tabset_count

\* regenerate_from_snippets updates the include directives and returns
RegenFinish ==
  /\ pc = "r_done"
  /\ doc' = IF RegenWrites THEN RenumberAll(run.md, run.actual_numbers, ExpectedNumbers)
            ELSE doc
  /\ run' = [run EXCEPT !.wrote = RegenWrites]
  /\ IF run.all_errors # {} THEN Return("False", "completed with errors")
     ELSE Return("True", "regenerated")
  /\ UNCHANGED <<dirExists, files, convlog, errlog, creates, edits, txt>>

\* an edit by hand: what is known of the last run is forgotten
Edited ==
  /\ lastop' = [kind |-> "edit", langs |-> <<>>]
  /\ run' = NoRun
  /\ result' = "none"
  /\ report' = "none"
  /\ convlog' = <<>>
  /\ errlog' = {}

\* the process is killed in create mode, before the document is written: within
\* create_snippets_and_tabs for the block the run is at, after p of its snippet
\* files were written, or after the last block
CreateCrash(p) ==
  /\ pc \in {"c_block", "c_done"}
  /\ edits < MaxEdits
  /\ IF pc = "c_block"
     THEN LET writes == SnippetWrites(CurBlock[1], CurBlock[2], run.langs, IsFirstBlock,
                                      run.kind, Rejects)
          IN  /\ p < Len(writes)
              /\ files' = WriteAll(files, ExampleNum, SubSeq(writes, 1, p))
     ELSE /\ p = 0
          /\ UNCHANGED files
  /\ pc' = "idle"
  /\ edits' = edits + 1
  /\ lastop' = [kind |-> "crash", langs |-> <<>>]
  /\ run' = NoRun
  /\ result' = "none"
  /\ report' = "none"
  /\ convlog' = <<>>
  /\ errlog' = {}
  /\ UNCHANGED <<doc, dirExists, creates, txt>>

\* the user deletes the snippet files of one example by hand
UserDelete(example_num) ==
  /\ pc = "idle"
  /\ edits < MaxEdits
  /\ \E key \in DOMAIN files : key[1] = example_num
  /\ files' = [key \in {q \in DOMAIN files : q[1] # example_num} |-> files[key]]
  /\ edits' = edits + 1
  /\ Edited
  /\ UNCHANGED <<doc, dirExists, pc, creates, txt>>

\* the user writes one more console block at the end of a processed document
UserAddBlock ==
  /\ pc = "idle"
  /\ edits < MaxEdits
  /\ count_tabsets_in_markdown(doc) > 0
  /\ doc' = doc \o Chs(<<"n">>) \o Block("console", <<"x", "x">>, <<>>) \o Chs(<<"n">>)
  /\ edits' = edits + 1
  /\ Edited
  /\ UNCHANGED <<dirExists, files, pc, creates, txt>>

Next ==
  \/ \E languages \in LangLists : CreateStart(languages)
  \/ CreateBlock
  \/ CreateFinish
  \/ \E languages \in LangLists : RegenStart(languages)
  \/ RegenClean
  \/ RegenSnippet
  \/ RegenFinish
  \/ \E p \in 0..3 : CreateCrash(p)
  \/ \E example_num \in 1..(MaxBlocks + 1) : UserDelete(example_num)
  \/ UserAddBlock

Spec == Init /\ [][Next]_vars

\* ------------------------------------------------------- the call specification
\* The functions of the program applied one after another to one text: a
\* document of one console block and the lines after it.

\* the code texts and the texts after the block
Codes == UNION {[1..n -> Chars] : n \in 0..MaxLen}

Lists ==
  { <<>>, <<"x">>, <<"d", ".", "x">>, <<"d", ".", "s">>,
    <<"d", ".", "x", "n", "d", ".", "x">>, <<"d", ".", "x", "n", "d", ".", "s">> }

InitCalls ==
  /\ doc = <<>>
  /\ dirExists = FALSE
  /\ files = NoFiles
  /\ pc = "idle"
  /\ run = NoRun
  /\ result = "none"
  /\ report = "none"
  /\ convlog = <<>>
  /\ errlog = {}
  /\ lastop = [kind |-> "none", langs |-> <<>>]
  /\ creates = 0
  /\ edits = 0
  /\ \E code \in Codes, list \in Lists :
       txt = [NoTxt EXCEPT !.stage = "text",
                           !.text = <<"x", "n", "n">> \o BlockText("console", code, list)
                                    \o <<"n">>]

OtherVars ==
  <<doc, dirExists, files, pc, run, result, report, convlog, errlog, lastop, creates, edits>>

\* extract_code_blocks on the document
Extract ==
  /\ txt.stage = "text"
  /\ LET blocks == extract_code_blocks(txt.text, "console")
     IN  txt' = IF blocks = <<>> THEN [txt EXCEPT !.stage = "no block"]
                ELSE [txt EXCEPT !.stage = "block", !.code = blocks[1][1],
                                 !.annotations = blocks[1][2]]
  /\ UNCHANGED OtherVars

\* strip_annotations on the code of the block
Strip ==
  /\ txt.stage = "block"
  /\ txt' = [txt EXCEPT !.stage = "stripped", !.stripped = strip_annotations(txt.code)]
  /\ UNCHANGED OtherVars

\* wrap_in_tabs on the stripped code
Wrap(languages) ==
  /\ txt.stage = "stripped"
  /\ LET w == wrap_in_tabs(txt.stripped, txt.annotations, languages, TRUE, "console",
                           Rejects)
     IN  txt' = [txt EXCEPT !.stage = "wrapped", !.langs = languages,
                            !.raised = w.raised, !.tabs = w.tabs]
  /\ UNCHANGED OtherVars

\* extract_code_blocks on the tab-set
Reextract ==
  /\ txt.stage = "wrapped"
  /\ ~txt.raised
  /\ txt' = [txt EXCEPT !.stage = "extracted",
                         !.found = extract_code_blocks(txt.tabs, "console")]
  /\ UNCHANGED OtherVars

\* write_snippet_file of the stripped code as a console snippet
WriteSnippet ==
  /\ txt.stage = "stripped"
  /\ txt' = [txt EXCEPT !.stage = "written",
                         !.content = write_snippet_file(NoFiles, 1, "console", txt.stripped,
                                                        txt.annotations)[<<1, "console">>]]
  /\ UNCHANGED OtherVars

\* parse_snippet_file on the snippet
ParseSnippet ==
  /\ txt.stage = "written"
  /\ txt' = [txt EXCEPT !.stage = "parsed", !.parsed = parse_snippet_file(txt.content)]
  /\ UNCHANGED OtherVars

\* convert_console on the stripped code
Convert(languages, complete) ==
  /\ txt.stage = "stripped"
  /\ LET conv == convert_console(txt.stripped, languages, complete, Rejects)
     IN  txt' = [txt EXCEPT !.stage = "converted", !.langs = languages,
                            !.complete = complete, !.raised = conv.raised,
                            !.results = conv.results, !.errors = conv.errors,
                            !.invoked = Range(Tasks(languages))]
  /\ UNCHANGED OtherVars

NextCalls ==
  \/ Extract
  \/ Strip
  \/ \E languages \in LangLists : Wrap(languages)
  \/ Reextract
  \/ WriteSnippet
  \/ ParseSnippet
  \/ \E languages \in LangLists, complete \in BOOLEAN : Convert(languages, complete)

SpecCalls == InitCalls /\ [][NextCalls]_vars

\* ------------------------------------------------------- the pool specification
\* One call of convert_console, the workers of its pool as processes: a future
\* is new (not submitted), pending, running or done.

\* the requests and the language lists of the calls
PoolCodes == {<<"x">>, <<"x", "s">>}

PoolLangLists ==
  {<<"js", "python">>, <<"python", "cobol", "js">>, <<"cobol">>, <<"python", "python">>}

InitPool ==
  /\ doc = <<>>
  /\ dirExists = FALSE
  /\ files = NoFiles
  /\ pc = "idle"
  /\ run = NoRun
  /\ result = "none"
  /\ report = "none"
  /\ convlog = <<>>
  /\ errlog = {}
  /\ lastop = [kind |-> "none", langs |-> <<>>]
  /\ creates = 0
  /\ edits = 0
  /\ \E code \in PoolCodes : txt = [NoTxt EXCEPT !.stage = "call", !.stripped = code]

\* a result of a worker that overwrites the entries of the other languages
ContributeToAll(d, lang, val) == [k \in DOMAIN d \cup {lang} |-> val]

\* results[lang] = code, errors[lang] = error
Contribute(d, lang, val) == [k \in DOMAIN d \cup {lang} |-> IF k = lang THEN val ELSE d[k]]

\* convert_console up to the pool: the entries of the unsupported languages,
\* the tasks, and ThreadPoolExecutor, which raises when there is no task
PoolCall(languages, complete) ==
  /\ txt.stage = "call"
  /\ txt' = [txt EXCEPT
               !.stage = IF PoolRaises(languages) THEN "raised" ELSE "submitting",
               !.langs = languages,
               !.complete = complete,
               !.raised = PoolRaises(languages),
               !.results = [l \in Unsupported(languages) |-> txt.stripped],
               !.errors = [l \in Unsupported(languages) |-> "Unsupported language"],
               !.tasks = Tasks(languages),
               !.futures = [j \in 1..Len(Tasks(languages)) |-> "new"],
               !.outcome = [j \in 1..Len(Tasks(languages)) |-> <<>>]]
  /\ UNCHANGED OtherVars

\* executor.submit of the next task; after the last, as_completed begins
Submit ==
  /\ txt.stage = "submitting"
  /\ LET j == Min({k \in DOMAIN txt.futures : txt.futures[k] = "new"})
     IN  txt' = [txt EXCEPT !.futures[j] = "pending",
                            !.stage = IF j = Len(txt.tasks) THEN "collecting" ELSE @]
  /\ UNCHANGED OtherVars

\* a thread of the pool takes a task; the pool has less than max_workers threads
WorkerStart(j) ==
  /\ txt.stage \in {"submitting", "collecting"}
  /\ j \in DOMAIN txt.futures
  /\ txt.futures[j] = "pending"
  /\ 2 * Cardinality({k \in DOMAIN txt.futures : txt.futures[k] = "running"})
       < 3 * Len(txt.tasks)
  /\ txt' = [txt EXCEPT !.futures[j] = "running",
                         !.invoked = @ \cup {txt.tasks[j]}]
  /\ UNCHANGED OtherVars

\* _convert_single_language returns in its thread
WorkerFinish(j) ==
  /\ txt.stage \in {"submitting", "collecting"}
  /\ j \in DOMAIN txt.futures
  /\ txt.futures[j] = "running"
  /\ txt' = [txt EXCEPT
               !.futures[j] = "done",
               !.outcome[j] = convert_single_language(
                                txt.tasks[j], txt.stripped, txt.complete,
                                LANGUAGE_MAP(lower(txt.tasks[j])), Rejects)]
  /\ UNCHANGED OtherVars

\* as_completed yields a future that is done; its result is put into the dicts
Collect(j) ==
  /\ txt.stage = "collecting"
  /\ j \in DOMAIN txt.futures \ txt.collected
  /\ txt.futures[j] = "done"
  /\ LET out == txt.outcome[j]
     IN  txt' = [txt EXCEPT
                  !.collected = @ \cup {j},
                  !.results = Contribute(@, out[1], out[2]),
                  !.errors = IF out[3] # None THEN Contribute(@, out[1], out[3]) ELSE @]
  /\ UNCHANGED OtherVars

\* as_completed is exhausted, the pool is shut down, convert_console returns
PoolReturn ==
  /\ txt.stage = "collecting"
  /\ txt.collected = DOMAIN txt.futures
  /\ txt' = [txt EXCEPT !.stage = "returned"]
  /\ UNCHANGED OtherVars

NextPool ==
  \/ \E languages \in PoolLangLists, complete \in BOOLEAN : PoolCall(languages, complete)
  \/ Submit
  \/ \E j \in 1..3 : WorkerStart(j)
  \/ \E j \in 1..3 : WorkerFinish(j)
  \/ \E j \in 1..3 : Collect(j)
  \/ PoolReturn

SpecPool == InitPool /\ [][NextPool]_vars

\* -------------------------------------------------- the increment specification
\* increment_directive_delimiters applied to a text of two directives, one
\* within the other or one after the other.

\* Most colons increment_directive_delimiters is asked to add.
MaxLevels == 2

\* a directive: its kind (note is of the known kinds, image is not), the
\* colons of its opening and closing lines, the spaces before both and the
\* spaces after the colons of the closing line
Dirs == [kind : {"note", "image"}, n : {3, 4}, indent : {0, 1}, trail : {0, 1}]

Spaces(c) == [i \in 1..c |-> Ch("s")]

\* the lines of a directive around a body
DirLines(d, body) ==
  Spaces(d.indent) \o <<Open(d.kind, "", d.n, 0), Ch("n")>> \o body \o <<Ch("n")>>
  \o Spaces(d.indent) \o <<Colons(d.n)>> \o Spaces(d.trail)

\* a text of two directives
DirText(dirs, nested) ==
  IF nested
  THEN Chs(<<"x", "n">>) \o DirLines(dirs[1], DirLines(dirs[2], Chs(<<"x">>)))
  ELSE DirLines(dirs[1], Chs(<<"x">>)) \o Chs(<<"n", "x", "n">>)
       \o DirLines(dirs[2], Chs(<<"x">>))

InitIncrement ==
  /\ doc = <<>>
  /\ dirExists = FALSE
  /\ files = NoFiles
  /\ pc = "idle"
  /\ run = NoRun
  /\ result = "none"
  /\ report = "none"
  /\ convlog = <<>>
  /\ errlog = {}
  /\ lastop = [kind |-> "none", langs |-> <<>>]
  /\ creates = 0
  /\ edits = 0
  /\ \E d1 \in Dirs, d2 \in Dirs, nested \in BOOLEAN :
       txt = [NoTxt EXCEPT !.stage = "directives", !.dirs = <<d1, d2>>,
                           !.nested = nested, !.md = DirText(<<d1, d2>>, nested)]

\* increment_directive_delimiters on the text
Increment(levels) ==
  /\ txt.stage = "directives"
  /\ txt' = [txt EXCEPT !.stage = "incremented", !.levels = levels,
                         !.out = increment_directive_delimiters(txt.md, levels)]
  /\ UNCHANGED OtherVars

NextIncrement == \E levels \in 1..MaxLevels : Increment(levels)

SpecIncrement == InitIncrement /\ [][NextIncrement]_vars

\* ---------------------------------------------------------------- properties

\* a create run has replaced blocks and returned
Created ==
  pc = "idle" /\ run.mode = "create" /\ report \in {"updated", "completed with errors"}

\* a regenerate run has gone through its snippets and returned
Regenerated ==
  pc = "idle" /\ run.mode = "regen" /\ report \in {"regenerated", "completed with errors"}

\* the console blocks (those that start with -result left out) and the esql
\* blocks of a document, in order of appearance; rank counts the blocks of the
\* same kind up to the block
BlocksOf(md) ==
  LET NotResult(m) == At(m.code, 1) # "R"
      cons == SelectSeq(FindBlocks(Text(md), "console"), NotResult)
      esq == FindBlocks(Text(md), "esql")
      Entry(kind, q, k) == [at |-> q[k].at, kind |-> kind, rank |-> k,
                            code |-> q[k].code, ann |-> q[k].ann]
      all == {Entry("console", cons, k) : k \in 1..Len(cons)}
             \cup {Entry("esql", esq, k) : k \in 1..Len(esq)}
      order == SortedSeq({b.at : b \in all})
  IN  [r \in 1..Len(order) |-> CHOOSE b \in all : b.at = order[r]]

\* the positions of the tab-sets of nesting level 4, the level of a tab-set the
\* run has just written, in document order
NewTabSets(md) ==
  SortedSeq({i \in 1..Len(md) : md[i].k = "open" /\ md[i].a = "tab-set" /\ md[i].n = 4})

\* the elements of the tab-set that opens at i, up to the line that closes it
TabSetBody(md, i) ==
  SubSeq(md, i, Min({j \in i..Len(md) : md[j].k = "colons" /\ md[j].n = md[i].n}))

\* the example numbers its include directives name
TabSetNums(md, i) ==
  {e.num : e \in {x \in Range(TabSetBody(md, i)) : x.k = "open" /\ x.a = "include"}}

\* the labels of its tabs, in order
TabSetLabels(md, i) ==
  LET IsItem(e) == e.k = "open" /\ e.a = "tab-item"
      items == SelectSeq(TabSetBody(md, i), IsItem)
  IN  [j \in 1..Len(items) |-> items[j].b]

\* the languages its include directives name, in order
TabSetIncludes(md, i) ==
  LET IsInclude(e) == e.k = "open" /\ e.a = "include"
      incs == SelectSeq(TabSetBody(md, i), IsInclude)
  IN  [j \in 1..Len(incs) |-> incs[j].b]

\* C1: after a create run on a document with N console blocks and M esql
\* blocks, the tab-set that stands where a block stood names one example
\* number: k for the k-th console block, N + j for the j-th esql block, both
\* counted in order of appearance; so the numbers 1..N+M are each used once.
\* The snippet files of those numbers hold the blocks: example k the k-th
\* console block, example N + j the j-th esql block.
C1_CreateNumbering ==
  Created =>
    LET blocks == BlocksOf(run.doc0)
        N == Cardinality({r \in DOMAIN blocks : blocks[r].kind = "console"})
        tabs == NewTabSets(doc)
        Num(b) == IF b.kind = "console" THEN b.rank ELSE N + b.rank
    IN  /\ Len(tabs) = Len(blocks)
        /\ \A r \in DOMAIN blocks :
             /\ TabSetNums(doc, tabs[r]) = {Num(blocks[r])}
             /\ (TabSetLabels(doc, tabs[r])[1] = "ES|QL") = (blocks[r].kind = "esql")
             /\ <<Num(blocks[r]), blocks[r].kind>> \in DOMAIN files
             /\ files[<<Num(blocks[r]), blocks[r].kind>>]
                  = snippet_content(blocks[r].kind, StripSp(blocks[r].code),
                                    StripSp(blocks[r].ann))
        /\ {Num(blocks[r]) : r \in DOMAIN blocks} = 1..Len(blocks)

\* a create run has numbered a document whose first block is an esql block and
\* whose other two blocks are console blocks: the first tab-set is example 3
C1_Witness ==
  /\ Created
  /\ Len(run.console_blocks) = 2
  /\ Len(run.esql_blocks) = 1
  /\ TabSetNums(doc, NewTabSets(doc)[1]) = {3}

\* a regenerate run has returned or raised
RegenReturned ==
  pc = "idle" /\ run.mode = "regen"
  /\ report \in {"regenerated", "completed with errors", "exception"}

FileNumbers == {key[1] : key \in DOMAIN files}

IncludesRenumbered(numbers) ==
  /\ Len(doc) = Len(run.doc0)
  /\ \A p \in 1..Len(doc) :
       LET e == run.doc0[p]
           named == {i \in 1..Len(numbers) :
                       e.k = "open" /\ e.a = "include" /\ e.num = numbers[i]}
       IN  doc[p] = IF named = {} THEN e ELSE [e EXCEPT !.num = Min(named)]

\* C3: a regenerate run that finds console snippets numbered a_1 < ... < a_k
\* with gaps leaves snippet files numbered exactly 1..k, and the document with
\* every include directive of a_i naming i.
C3_Renumbering ==
  (Regenerated /\ run.actual_numbers # ExpectedNumbers) =>
    /\ FileNumbers = 1..Len(run.actual_numbers)
    /\ IncludesRenumbered(run.actual_numbers)

\* the same, for the runs in which every console snippet holds code
C3_RenumberingOfSnippetsWithCode ==
  (Regenerated /\ run.actual_numbers # ExpectedNumbers
     /\ Len(run.console_data) = Len(run.actual_numbers)) =>
    /\ FileNumbers = 1..Len(run.actual_numbers)
    /\ IncludesRenumbered(run.actual_numbers)

\* C4, as stated: convert_console returns; its results hold every requested
\* language; an unsupported language has the error and the console text, and
\* no converter invocation; a supported language has a converter invocation,
\* and the converter's output unless the converter rejects the request.
C4_EveryLanguageAnswered ==
  txt.stage = "converted" =>
    /\ ~txt.raised
    /\ DOMAIN txt.results = Range(txt.langs)
    /\ \A l \in Range(txt.langs) \cap DOMAIN txt.results :
         IF LANGUAGE_MAP(lower(l)) = None
         THEN /\ l \in DOMAIN txt.errors
              /\ txt.errors[l] = "Unsupported language"
              /\ txt.results[l] = txt.stripped
              /\ l \notin txt.invoked
         ELSE /\ l \in txt.invoked
              /\ \/ l \in DOMAIN txt.errors
                 \/ txt.results[l] = RstripLines(Converter(LANGUAGE_MAP(lower(l)),
                                                           txt.complete, txt.stripped))

\* the same, for the requests that name a supported language
C4_WhenALanguageIsSupported ==
  (txt.stage = "converted" /\ Tasks(txt.langs) # <<>>) =>
    /\ ~txt.raised
    /\ DOMAIN txt.results = Range(txt.langs)
    /\ \A l \in Unsupported(txt.langs) :
         /\ l \in DOMAIN txt.errors
         /\ txt.errors[l] = "Unsupported language"
         /\ txt.results[l] = txt.stripped
         /\ l \notin txt.invoked
    /\ Range(txt.langs) \ Unsupported(txt.langs) = txt.invoked

\* whether a document holds the tab the tab-set builder writes for a language
\* identifier, or for ES|QL: the tab-item line of the label, then the sync line
BuilderTab(md, label, sync_key) ==
  \E i \in 1..Len(md) - 2 :
    /\ md[i].k = "open" /\ md[i].a = "tab-item" /\ md[i].b = label
    /\ IsCh(md[i + 1], "n")
    /\ md[i + 2] = SyncLine(sync_key)

\* the language identifiers the guard is said to know
GuardedLanguages == {"curl", "python", "js", "javascript", "php", "ruby"}

\* whether the document of the run held, when the run began, a tab of a
\* requested language of the set, or an ES|QL tab
HadTabs(languages) ==
  \/ BuilderTab(run.doc0, "ES|QL", "esql")
  \/ \E l \in Range(run.langs) \cap languages : BuilderTab(run.doc0, lang_label(l), lower(l))

\* C5, as stated: a create run on a document that holds a tab of a requested
\* language, or an ES|QL tab, reports "already processed" and leaves the
\* document and the snippet files as they were.
C5_PreflightGuard ==
  (pc = "idle" /\ run.mode = "create" /\ HadTabs(GuardedLanguages)) =>
    /\ report = "already processed"
    /\ doc = run.doc0
    /\ files = run.files0

\* the part of it that is about the document and the files
C5_NothingModified ==
  (pc = "idle" /\ run.mode = "create" /\ HadTabs(GuardedLanguages)) =>
    (doc = run.doc0 /\ files = run.files0)

\* the same as C5 for every requested language but js
C5_GuardOfLanguagesOtherThanJs ==
  (pc = "idle" /\ run.mode = "create" /\ HadTabs(GuardedLanguages \ {"js"})) =>
    /\ report = "already processed"
    /\ doc = run.doc0
    /\ files = run.files0

\* the example number a create run gave a block of the document it began with
NumberOf(b) ==
  IF b.kind = "console" THEN b.rank
  ELSE Cardinality({r \in DOMAIN BlocksOf(run.doc0) :
                      BlocksOf(run.doc0)[r].kind = "console"}) + b.rank

\* C6: after a create run, the tab-set of a block holds one tab for ES|QL if
\* the block is an esql block, one Console tab, and one tab for each requested
\* language, in this order and the languages in the order requested; each tab
\* includes the snippet file of the example number of the block and of the
\* language of the tab, and the file is there.
C6_TabSetStructure ==
  Created =>
    LET blocks == BlocksOf(run.doc0)
        tabs == NewTabSets(doc)
        First(b) == IF b.kind = "esql" THEN <<"esql", "console">> ELSE <<"console">>
        Labels(b) == IF b.kind = "esql" THEN <<"ES|QL", "Console">> ELSE <<"Console">>
    IN  /\ Len(tabs) = Len(blocks)
        /\ \A r \in DOMAIN blocks :
             /\ TabSetIncludes(doc, tabs[r]) = First(blocks[r]) \o run.langs
             /\ TabSetLabels(doc, tabs[r])
                  = Labels(blocks[r])
                    \o [j \in 1..Len(run.langs) |-> lang_label(run.langs[j])]
             /\ TabSetNums(doc, tabs[r]) = {NumberOf(blocks[r])}
             /\ \A l \in Range(TabSetIncludes(doc, tabs[r])) :
                  <<NumberOf(blocks[r]), l>> \in DOMAIN files

\* a create run for python and cobol has replaced an esql block by a tab-set of
\* four tabs
C6_Witness ==
  /\ Created
  /\ run.langs = <<"python", "cobol">>
  /\ run.esql_blocks # <<>>
  /\ \E i \in Range(NewTabSets(doc)) :
       TabSetLabels(doc, i) = <<"ES|QL", "Console", "Python", "Cobol">>

\* a run has gone into its loop and has returned or raised
LoopReturned ==
  /\ pc = "idle"
  /\ run.mode \in {"create", "regen"}
  /\ report \in {"updated", "regenerated", "completed with errors", "exception"}

\* the example numbers of the blocks of the run and the console text of each
\* that is handed to the converter
LoopTexts ==
  IF run.mode = "create"
  THEN LET blocks == BlocksOf(run.doc0)
       IN  {<<NumberOf(blocks[r]),
              IF blocks[r].kind = "esql"
              THEN esql_to_console(strip_annotations(StripSp(blocks[r].code)))
              ELSE strip_annotations(StripSp(blocks[r].code))>> : r \in DOMAIN blocks}
  ELSE {<<i, strip_annotations(run.console_data[i][1])>> : i \in DOMAIN run.console_data}

\* every block of the run has a snippet of every requested language, the
\* snippet of a language that failed holds the console text, and in create
\* mode the document holds a tab-set for every block
LoopCompleted ==
  /\ \A t \in LoopTexts : \A l \in Range(run.langs) :
       /\ <<t[1], l>> \in DOMAIN files
       /\ <<t[1], l>> \in errlog => files[<<t[1], l>>] = snippet_content(l, t[2], <<>>)
  /\ run.mode = "create" => Len(NewTabSets(doc)) = Len(BlocksOf(run.doc0))

\* C7, as stated: a run that has gone into its loop is never left by an
\* exception; when it has returned every block has a snippet of every
\* requested language, that of a failed language holding the console text, the
\* document is written in create mode, and the run returns False exactly when
\* an error of a language of a block was collected.
C7_ErrorsNeverAbort ==
  LoopReturned =>
    /\ report # "exception"
    /\ LoopCompleted
    /\ (result = "False") = (errlog # {})

\* the same for the runs that are asked for a language the converter knows
C7_WhenALanguageIsSupported ==
  (LoopReturned /\ Tasks(run.langs) # <<>>) =>
    /\ report # "exception"
    /\ LoopCompleted
    /\ (result = "False") = (errlog # {})

\* a run whose first block failed for JavaScript went on to a second block
C7_WhenALanguageIsSupportedWitness ==
  /\ LoopReturned
  /\ run.langs = <<"js">>
  /\ <<1, "js">> \in errlog
  /\ <<2, "js">> \in DOMAIN files
  /\ <<2, "js">> \notin errlog

\* whether the snippets directory held no console snippet when the run began
NoConsoleSnippets ==
  /\ run.actual_numbers = <<>>
  /\ \A key \in DOMAIN run.files0 : key[2] # "console"

\* C8: a regenerate run on a file without a console snippet returns False,
\* leaves the snippet files and the document as they were, and asks for no
\* conversion.
C8_RegenerateWithoutSnippets ==
  (pc = "idle" /\ run.mode = "regen" /\ NoConsoleSnippets) =>
    /\ result = "False"
    /\ report = "no console snippets"
    /\ doc = run.doc0
    /\ files = run.files0
    /\ convlog = <<>>

\* a regenerate run has returned where the only example was deleted by hand:
\* the directory is there, the tab-set is there, no snippet is
C8_Witness ==
  /\ pc = "idle"
  /\ run.mode = "regen"
  /\ report = "no console snippets"
  /\ dirExists
  /\ edits = 1
  /\ files = NoFiles
  /\ count_tabsets_in_markdown(doc) = 1

\* C9, as stated: the code extracted from the tab-set wrap_in_tabs makes of a
\* stripped code is the stripped code, the code parse_snippet_file reads from
\* the console snippet written of it is the stripped code, and the annotation
\* list written with the snippet is read back unchanged.
C9_RoundTrip ==
  /\ txt.stage = "extracted" =>
       (txt.found # <<>> /\ txt.found[1][1] = txt.stripped)
  /\ txt.stage = "parsed" =>
       (txt.parsed[1] = txt.stripped /\ txt.parsed[2] = txt.annotations)

\* whether a text is a numbered list from end to end: every line a number, a
\* dot and at least one more character
WholeList(annotations) == ListLen(annotations) = Len(annotations)

\* C9, amended: the code extracted from the tab-set wrap_in_tabs makes of a
\* stripped code is the stripped code without its leading and trailing
\* whitespace, and no block is extracted when that text starts with -result;
\* the code parse_snippet_file reads from the console snippet written of the
\* stripped code is the stripped code; the annotation list is read back
\* unchanged when every item holds text after its number and dot, and is else
\* read back up to the first item that holds none.
C9_RoundTripTrimmed ==
  /\ txt.stage = "extracted" =>
       IF At(StripSp(txt.stripped), 1) = "R" THEN txt.found = <<>>
       ELSE txt.found # <<>> /\ txt.found[1][1] = StripSp(txt.stripped)
  /\ txt.stage = "parsed" =>
       /\ txt.parsed[1] = txt.stripped
       /\ WholeList(txt.annotations) => txt.parsed[2] = txt.annotations
       /\ ~WholeList(txt.annotations) =>
            txt.parsed[2] = StripSp(Take(txt.annotations, ListLen(txt.annotations)))

\* a block that starts with a comment line has gone through strip_annotations,
\* wrap_in_tabs and extract_code_blocks: the code found is without the newline
\* that the stripped code starts with
C9_Witness ==
  /\ txt.stage = "extracted"
  /\ txt.code = <<"#", "n", "x">>
  /\ txt.stripped = <<"n", "x">>
  /\ txt.found[1][1] = <<"x">>

\* C10: of the conversions of a run, those of example 1 ask for the complete
\* form and no other does; the conversions are asked for block after block, in
\* the order of the example numbers 1, 2, ...  (Example 1 is the first console
\* block, or the first esql block of a document without console blocks: C1.)
C10_CompleteOnlyFirst ==
  /\ \A j \in DOMAIN convlog : convlog[j].complete = (convlog[j].num = 1)
  /\ \A j \in DOMAIN convlog :
       /\ j = 1 => convlog[j].num = 1
       /\ j > 1 => convlog[j].num \in {convlog[j - 1].num, convlog[j - 1].num + 1}

\* a create run has converted two console blocks and then an esql block, the
\* first in the complete form and the esql block not
C10_Witness ==
  /\ Created
  /\ Len(run.console_blocks) = 2
  /\ Len(run.esql_blocks) = 1
  /\ Len(convlog) = 3
  /\ convlog[1].complete
  /\ convlog[3] = [num |-> 3, lang |-> "python", complete |-> FALSE]

\* whether the document differs from the document the run began with in
\* nothing but the example numbers of include directives
OnlyIncludesChanged ==
  /\ Len(doc) = Len(run.doc0)
  /\ \A p \in 1..Len(doc) :
       \/ doc[p] = run.doc0[p]
       \/ /\ run.doc0[p].k = "open" /\ run.doc0[p].a = "include"
          /\ doc[p] = [run.doc0[p] EXCEPT !.num = doc[p].num]

\* C11, as stated: a regenerate run writes the document only when the numbers
\* of the console snippets it found are not 1..k or when the number of console
\* snippets is not the number of tab-sets of the document; when it writes,
\* nothing but the example numbers of include directives is changed.
C11_WritesOnlyWhenRenumbered ==
  Regenerated =>
    /\ run.wrote =>
         \/ run.actual_numbers # ExpectedNumbers
         \/ Len(run.actual_numbers) # run.tabset_count
    /\ ~run.wrote => doc = run.doc0
    /\ OnlyIncludesChanged

\* the same with the number of console snippets that hold code in the place of
\* the number of console snippets
C11_WritesWhenCodeCountDiffers ==
  Regenerated =>
    /\ run.wrote =
         (\/ run.actual_numbers # ExpectedNumbers
          \/ Len(run.console_data) # run.tabset_count)
    /\ ~run.wrote => doc = run.doc0
    /\ OnlyIncludesChanged

\* C12: convert_console returns only when every worker is done; an entry of
\* results that is not of an unsupported language is what the worker of that
\* language returned; and whatever the order in which the workers ran and
\* were collected, the dicts returned are those of the call run in sequence,
\* with an entry of results for every requested language.
C12_PoolDeterministic ==
  /\ txt.stage \in {"submitting", "collecting", "returned"} =>
       \A l \in DOMAIN txt.results \ Unsupported(txt.langs) :
         \E j \in txt.collected :
           txt.tasks[j] = l /\ txt.results[l] = txt.outcome[j][2]
  /\ txt.stage = "returned" =>
       /\ \A j \in DOMAIN txt.futures : txt.futures[j] = "done"
       /\ DOMAIN txt.results = Range(txt.langs)
       /\ txt.results = convert_console(txt.stripped, txt.langs, txt.complete,
                                        Rejects).results
       /\ txt.errors = convert_console(txt.stripped, txt.langs, txt.complete,
                                       Rejects).errors

\* a call for python, cobol and js, the request rejected for JavaScript, has
\* returned
C12_Witness ==
  /\ txt.stage = "returned"
  /\ txt.langs = <<"python", "cobol", "js">>
  /\ DOMAIN txt.errors = {"cobol", "js"}
  /\ txt.results["js"] = txt.stripped
  /\ txt.results["python"] # txt.stripped

\* whether the snippet files are those of the examples 1..K: a console
\* snippet and a snippet of each requested language for each, and no other
SnippetsOf(K) ==
  DOMAIN files = {<<n, l>> : n \in 1..K, l \in {"console"} \cup Range(run.langs)}

\* C13, as stated: a regenerate run that followed a killed create run and
\* found K console snippets leaves the snippet files of the examples 1..K.
C13_RegenerateRepairs ==
  (Regenerated /\ run.repairs) => SnippetsOf(Len(run.actual_numbers))

\* the same with K the number of the console snippets found that hold code
C13_RepairsSnippetsWithCode ==
  (Regenerated /\ run.repairs) => SnippetsOf(Len(run.console_data))

\* a regenerate run for python and cobol has returned after a create run that
\* was killed when it had written two console snippets; the document still
\* holds its blocks
C13_RepairsSnippetsWithCodeWitness ==
  /\ Regenerated
  /\ run.repairs
  /\ Len(run.console_data) = 2
  /\ run.actual_numbers = <<1, 2>>
  /\ run.langs = <<"python", "cobol">>
  /\ count_tabsets_in_markdown(doc) = 0

\* a directive of a known kind with the colons added, the spaces after its
\* closing colons dropped; a directive of another kind as it is
Deepened(d, levels) ==
  IF d.kind \in Directives THEN [d EXCEPT !.n = @ + levels, !.trail = 0] ELSE d

\* C14, as stated: increment_directive_delimiters adds the colons to the
\* opening line and to the closing line of each directive of a known kind,
\* whatever its indentation, and changes no other line: a directive of
\* another kind is left as it is.
C14_IncrementKeepsBalance ==
  txt.stage = "incremented" =>
    txt.out = DirText(<<Deepened(txt.dirs[1], txt.levels),
                        Deepened(txt.dirs[2], txt.levels)>>, txt.nested)

\* the same for the texts whose directives are all of a known kind and start
\* in the first column
C14_IncrementOfKnownUnindented ==
  (/\ txt.stage = "incremented"
   /\ \A j \in 1..2 : txt.dirs[j].kind \in Directives /\ txt.dirs[j].indent = 0) =>
    txt.out = DirText(<<Deepened(txt.dirs[1], txt.levels),
                        Deepened(txt.dirs[2], txt.levels)>>, txt.nested)

\* the include directives of a document: <<example number, language>>
Includes(md) ==
  {<<md[p].num, md[p].b>> : p \in {q \in 1..Len(md) : md[q].k = "open" /\ md[q].a = "include"}}

\* C15, as stated: after a regenerate run that returned, every include
\* directive of the document names a snippet file that is there.
C15_NoDanglingInclude ==
  Regenerated => Includes(doc) \subseteq DOMAIN files

\* the same for the runs on a document without ES|QL tab, whose tabs are of
\* the languages the run is asked for, and that find a console snippet with
\* code for every tab-set of the document
C15_NoDanglingIncludeOfRequested ==
  (/\ Regenerated
   /\ \A inc \in Includes(doc) : inc[2] \in {"console"} \cup Range(run.langs)
   /\ Len(run.console_data) = Len(run.actual_numbers)
   /\ Len(run.actual_numbers) = run.tabset_count) =>
    Includes(doc) \subseteq DOMAIN files

\* the positions of the tab-sets of a document, of any nesting level
TabSets(md) == {i \in 1..Len(md) : md[i].k = "open" /\ md[i].a = "tab-set"}

\* C16, as stated: after a create run that returned, no two tab-sets of the
\* document name the same example number, and every snippet file that an
\* include directive of the document named when the run began is as it was.
C16_CreateRunsKeepExamplesApart ==
  Created =>
    /\ \A i, j \in TabSets(doc) :
         i # j => TabSetNums(doc, i) \cap TabSetNums(doc, j) = {}
    /\ \A key \in Includes(run.doc0) \cap DOMAIN run.files0 :
         key \in DOMAIN files /\ files[key] = run.files0[key]

\* the same for the create runs on a document without tab-sets
C16_FirstCreateRun ==
  (Created /\ TabSets(run.doc0) = {}) =>
    /\ \A i, j \in TabSets(doc) :
         i # j => TabSetNums(doc, i) \cap TabSetNums(doc, j) = {}
    /\ \A key \in Includes(run.doc0) \cap DOMAIN run.files0 :
         key \in DOMAIN files /\ files[key] = run.files0[key]

\* C17, as stated: after a regenerate run that returned, for every console
\* snippet with code that the run found, the include directives that named
\* its number when the run began name a number under which the console
\* snippet now holds that code and those annotations.
C17_NumberingAgrees ==
  Regenerated =>
    \A i \in 1..Len(run.actual_numbers) :
      \A p \in 1..Len(run.doc0) :
        (/\ run.parsed0[i][1] # <<>>
         /\ run.doc0[p].k = "open" /\ run.doc0[p].a = "include"
         /\ run.doc0[p].num = run.actual_numbers[i]) =>
          /\ <<doc[p].num, "console">> \in DOMAIN files
          /\ parse_snippet_file(files[<<doc[p].num, "console">>]) = run.parsed0[i]

\* the same for the runs in which every console snippet holds code
C17_NumberingAgreesWithCode ==
  (Regenerated /\ Len(run.console_data) = Len(run.actual_numbers)) =>
    \A i \in 1..Len(run.actual_numbers) :
      \A p \in 1..Len(run.doc0) :
        (/\ run.doc0[p].k = "open" /\ run.doc0[p].a = "include"
         /\ run.doc0[p].num = run.actual_numbers[i]) =>
          /\ <<doc[p].num, "console">> \in DOMAIN files
          /\ parse_snippet_file(files[<<doc[p].num, "console">>]) = run.parsed0[i]

\* whether what parse_snippet_file read from every console snippet when the
\* run began can be read from a console snippet now
ContentKept ==
  \A i \in 1..Len(run.parsed0) :
    \E key \in DOMAIN files :
      key[2] = "console" /\ parse_snippet_file(files[key]) = run.parsed0[i]

\* C18, as stated: in every state of a regenerate run, and after it has
\* returned or raised, the code and annotations of every console snippet that
\* was there when the run began are in a console snippet.
C18_ContentNeverLost ==
  run.mode = "regen" => ContentKept

\* the same for the snippets with code, after a run that returned
C18_ContentKeptAtReturn ==
  Regenerated =>
    \A i \in 1..Len(run.parsed0) :
      run.parsed0[i][1] # <<>> =>
        \E key \in DOMAIN files :
          key[2] = "console" /\ parse_snippet_file(files[key]) = run.parsed0[i]

====
